---- MODULE Spec2Model ----
(***************************************************************************)
(* The memory manager of src/memory_manager.c: one arena, the chain of     *)
(* MemoryBlock records reachable from memory_head, and the mutex `lock`,   *)
(* used by several threads.                                                *)
(*                                                                         *)
(* Addresses are integers, NULL is 0.  A thread's call is split at the     *)
(* points where the code takes and releases the mutex; the call itself and *)
(* the acquisition of the mutex are one step (a thread waiting for the     *)
(* mutex is a thread whose lock step is not enabled).  The host heap is    *)
(* assumed to serve the sizeof(MemoryBlock) requests for the records; the  *)
(* arena's own malloc may fail.                                            *)
(*                                                                         *)
(* The list client of src/linked_list.c is modelled on top of it: the      *)
(* head pointer, the nodes' fields by address and the reader/writer lock.  *)
(* Spec and SpecBytes are threads calling the manager directly, SpecList   *)
(* is threads calling it through the list operations only.  list_init and  *)
(* list_cleanup are called while no other operation is under way.          *)
(***************************************************************************)
EXTENDS Integers, Sequences, FiniteSets

\* ---------------------------------------------------------------- bounds
\* Largest capacity passed to mem_init.
MaxCap == 3
\* The address the host malloc returns for the arena.
Base == 10
\* Largest number of nodes a list arena has room for.
MaxNodes == 2
\* sizeof(Node): uint16_t data, Node *next.
NodeSize == 16

NULL == 0
None == "none"
Threads == {"t1", "t2"}
Byte == {0, 1}

Caps == 0..MaxCap
Sizes == 0..(MaxCap + 1)
ArenaAddrs == Base..(Base + MaxCap - 1)
\* Pointers a caller may pass to mem_free / mem_resize.
Pointers == {NULL} \cup (Base..(Base + MaxCap))

VARIABLES
    memory,       \* void *memory
    memory_head,  \* the chain from memory_head, in chain order
    memory_size,  \* size_t memory_size
    lock,         \* owner of the mutex, or None
    lock_state,   \* "uninit" | "init" | "destroyed"
    arena,        \* the bytes of the arena, by address
    pc,           \* each thread's position
    frame,        \* each thread's arguments and locals
    held,         \* addresses the callers currently hold (ghost)
    list_head,    \* Node *head of the list client (*head)
    nodes,        \* the nodes' fields (data, next), by address
    list_lock,    \* pthread_rwlock_t list_lock: state, writer, readers
    lpc,          \* each thread's position in a list operation
    loc,          \* each thread's list arguments and locals
    crashed       \* the process was ended by a fault

mvars == <<memory, memory_head, memory_size, lock, lock_state, arena, pc, frame, held>>
lvars == <<list_head, nodes, list_lock, lpc, loc, crashed>>
vars == <<mvars, lvars>>

\* ------------------------------------------------------- chain helpers
Block(s, e) == [start |-> s, end |-> e]

Starts(head) == {head[i].start : i \in 1..Len(head)}

RECURSIVE SumSizes(_)
SumSizes(head) ==
    IF head = <<>> THEN 0
    ELSE (head[1].end - head[1].start) + SumSizes(Tail(head))

InsertAt(head, i, b) ==
    SubSeq(head, 1, i) \o <<b>> \o SubSeq(head, i + 1, Len(head))

\* Mutant: the predecessor is not relinked to the successor.
M16_RemoveAt(head, i) == SubSeq(head, 1, i - 1)

RemoveAt(head, i) ==
    SubSeq(head, 1, i - 1) \o SubSeq(head, i + 1, Len(head))

\* ------------------------------------------------- mem_alloc_no_lock
\* Mutant: the gap before the head is not measured against the request.
M1_FitsFirst(mem, head, size) ==
    head = <<>> \/ head[1].start - mem >= 0

\* Mutant: the gap before the head is never used.
M6_FitsFirst(mem, head, size) ==
    head = <<>>

\* "Insert first": the chain is empty or the gap before the head fits.
FitsFirst(mem, head, size) ==
    head = <<>> \/ head[1].start - mem >= size

\* Mutant: the last gap is measured from the record's start.
M2_FreeSize(mem, msize, head, i) ==
    IF i < Len(head) THEN head[i + 1].start - head[i].end
    ELSE mem + msize - head[i].start

\* free_size after record i: up to the next record, or to the arena end.
FreeSize(mem, msize, head, i) ==
    IF i < Len(head) THEN head[i + 1].start - head[i].end
    ELSE mem + msize - head[i].end

\* Mutant: the new record is placed at the start of `current`.
M3_NewBlockAfter(current, size) == Block(current.start, current.start + size)

\* The record placed after `current`.
NewBlockAfter(current, size) == Block(current.end, current.end + size)

\* Mutant: a gap one byte short is accepted.
RECURSIVE M5_Walk(_, _, _, _, _)
M5_Walk(mem, msize, head, size, i) ==
    IF i > Len(head) THEN 0
    ELSE IF FreeSize(mem, msize, head, i) + 1 >= size THEN i
    ELSE M5_Walk(mem, msize, head, size, i + 1)

\* The while loop: the first record from i on whose free_size fits, or 0.
RECURSIVE Walk(_, _, _, _, _)
Walk(mem, msize, head, size, i) ==
    IF i > Len(head) THEN 0
    ELSE IF FreeSize(mem, msize, head, i) >= size THEN i
    ELSE Walk(mem, msize, head, size, i + 1)

\* Mutant: a zero-size request is refused.
M12_ZeroAlloc(mem, head) == [ret |-> NULL, head |-> head]

\* Zero-size request: the arena pointer, no record.
ZeroAlloc(mem, head) == [ret |-> mem, head |-> head]

AllocNoLock(mem, msize, head, size) ==
    IF mem = NULL \/ size > msize THEN [ret |-> NULL, head |-> head]
    ELSE IF size = 0 THEN ZeroAlloc(mem, head)
    ELSE IF FitsFirst(mem, head, size)
         THEN [ret |-> mem, head |-> <<Block(mem, mem + size)>> \o head]
    ELSE LET i == Walk(mem, msize, head, size, 1) IN
         IF i = 0 THEN [ret |-> NULL, head |-> head]
         ELSE LET nb == NewBlockAfter(head[i], size) IN
              [ret |-> nb.start, head |-> InsertAt(head, i, nb)]

\* -------------------------------------------------- mem_free_no_lock
\* Mutant: a pointer into a block matches the block.
RECURSIVE M7_Find(_, _, _)
M7_Find(head, block, i) ==
    IF i > Len(head) THEN 0
    ELSE IF head[i].start <= block /\ block < head[i].end THEN i
    ELSE M7_Find(head, block, i + 1)

\* The search loop: index of the first record whose start is block, or 0.
RECURSIVE Find(_, _, _)
Find(head, block, i) ==
    IF i > Len(head) THEN 0
    ELSE IF head[i].start = block THEN i
    ELSE Find(head, block, i + 1)

\* Mutant: the record is not released.
M20_FreeNoLock(head, block) == head

FreeNoLock(head, block) ==
    IF block = NULL THEN head
    ELSE LET i == Find(head, block, 1) IN
         IF i = 0 THEN head ELSE RemoveAt(head, i)

\* -------------------------------------------------------------- memcpy
RECURSIVE CopyForward(_, _, _, _, _)
CopyForward(a, dst, src, n, i) ==
    IF i >= n THEN a
    ELSE CopyForward([a EXCEPT ![dst + i] = a[src + i]], dst, src, n, i + 1)

RECURSIVE CopyBackward(_, _, _, _)
CopyBackward(a, dst, src, i) ==
    IF i <= 0 THEN a
    ELSE CopyBackward([a EXCEPT ![dst + i - 1] = a[src + i - 1]], dst, src, i - 1)

Overlap(dst, src, n) == n > 0 /\ dst < src + n /\ src < dst + n

\* memcpy(dst, src, n).  On overlapping ranges its behaviour is undefined: a
\* build copies low-to-high or high-to-low.
Memcpy(a, dst, src, n) ==
    IF Overlap(dst, src, n)
    THEN {CopyForward(a, dst, src, n, 0), CopyBackward(a, dst, src, n)}
    ELSE {CopyForward(a, dst, src, n, 0)}

\* ----------------------------------------------------------- the mutex
\* Mutant: the mutex is taken whoever owns it.
M11_Acquire(t) == lock_state # "uninit" /\ lock' = t

\* pthread_mutex_lock by t.  On a destroyed mutex the call is undefined: it
\* takes the mutex if free, or returns an error, which the code ignores.
\* The manager is not used before the first mem_init.
Acquire(t) ==
    /\ lock_state # "uninit"
    /\ IF lock_state = "init" THEN lock = None /\ lock' = t
       ELSE lock' \in ((IF lock = None THEN {t} ELSE {}) \cup {lock})

\* pthread_mutex_unlock by t.
Release(t) == lock' = (IF lock = t THEN None ELSE lock)

\* ---------------------------------------------------------------- state
ZeroArena == [a \in ArenaAddrs |-> 0]

\* The contents of a fresh buffer of `size` bytes: indeterminate.
FreshArenas(size) ==
    {a \in [ArenaAddrs -> Byte] : \A x \in ArenaAddrs : x >= Base + size => a[x] = 0}

NoFrame ==
    [op |-> "none", block |-> NULL, size |-> 0, current_size |-> 0,
     ret |-> NULL, before |-> <<>>]

ResizeMid == {"resize_alloc", "resize_rollback", "resize_copy"}
BodyPcs ==
    {"alloc_body", "alloc_unlock", "free_body", "free_unlock", "resize_find",
     "resize_unlock", "deinit_body", "deinit_unlock"} \cup ResizeMid

AllIdle == \A t \in Threads : pc[t] = "idle"

NoLoc ==
    [data |-> 0, ref |-> NULL, new_node |-> NULL, temp |-> NULL,
     before |-> <<>>, bdata |-> <<>>]

Init ==
    /\ list_head = NULL
    /\ nodes = <<>>
    /\ list_lock = [state |-> "uninit", w |-> None, r |-> {}]
    /\ lpc = [t \in Threads |-> "idle"]
    /\ loc = [t \in Threads |-> NoLoc]
    /\ crashed = FALSE
    /\ memory = NULL
    /\ memory_head = <<>>
    /\ memory_size = 0
    /\ lock = None
    /\ lock_state = "uninit"
    /\ arena = ZeroArena
    /\ pc = [t \in Threads |-> "idle"]
    /\ frame = [t \in Threads |-> NoFrame]
    /\ held = {}

\* ------------------------------------------------------------- mem_init
\* Called while no thread is inside the manager.  malloc may fail, and
\* malloc(0) returns NULL or a pointer.  Handles of an earlier arena are gone.
\* `fresh` is the contents of the new buffer.
MemInit(size, fresh) ==
    /\ AllIdle
    /\ memory' \in {NULL, Base}
    /\ memory_head' = <<>>
    /\ memory_size' = size
    /\ lock' = None
    /\ lock_state' = "init"
    /\ arena' = (IF memory' = NULL THEN ZeroArena ELSE fresh)
    /\ held' = {}
    /\ UNCHANGED <<pc, frame>>

\* ------------------------------------------------------------ mem_alloc
AllocLock(t, size) ==
    /\ pc[t] = "idle"
    /\ Acquire(t)
    /\ pc' = [pc EXCEPT ![t] = "alloc_body"]
    /\ frame' = [frame EXCEPT ![t] = [NoFrame EXCEPT !.op = "alloc", !.size = size]]
    /\ UNCHANGED <<memory, memory_head, memory_size, lock_state, arena, held>>

AllocBody(t) ==
    /\ pc[t] = "alloc_body"
    /\ LET r == AllocNoLock(memory, memory_size, memory_head, frame[t].size) IN
       /\ memory_head' = r.head
       /\ frame' = [frame EXCEPT ![t].ret = r.ret, ![t].before = memory_head]
       /\ held' = (IF r.head # memory_head THEN held \cup {r.ret} ELSE held)
    /\ pc' = [pc EXCEPT ![t] = "alloc_unlock"]
    /\ UNCHANGED <<memory, memory_size, lock, lock_state, arena>>

\* pthread_mutex_unlock and return of mem_alloc, mem_free, mem_resize.
Unlock(t) ==
    /\ pc[t] \in {"alloc_unlock", "free_unlock", "resize_unlock"}
    /\ Release(t)
    /\ pc' = [pc EXCEPT ![t] = "idle"]
    /\ frame' = [frame EXCEPT ![t] = NoFrame]
    /\ UNCHANGED <<memory, memory_head, memory_size, lock_state, arena, held>>

\* ------------------------------------------------------------- mem_free
FreeLock(t, block) ==
    /\ pc[t] = "idle"
    /\ Acquire(t)
    /\ pc' = [pc EXCEPT ![t] = "free_body"]
    /\ frame' = [frame EXCEPT ![t] = [NoFrame EXCEPT !.op = "free", !.block = block]]
    /\ UNCHANGED <<memory, memory_head, memory_size, lock_state, arena, held>>

FreeBody(t) ==
    /\ pc[t] = "free_body"
    /\ memory_head' = FreeNoLock(memory_head, frame[t].block)
    /\ frame' = [frame EXCEPT ![t].before = memory_head]
    /\ held' = held \ {frame[t].block}
    /\ pc' = [pc EXCEPT ![t] = "free_unlock"]
    /\ UNCHANGED <<memory, memory_size, lock, lock_state, arena>>

\* ----------------------------------------------------------- mem_resize
\* The call up to the first pthread_mutex_lock: size 0 is mem_free(block),
\* a null block is mem_alloc(size).  mem_resize(NULL, 0) returns at once.
ResizeLock(t, block, size) ==
    /\ pc[t] = "idle"
    /\ ~(size = 0 /\ block = NULL)
    /\ Acquire(t)
    /\ pc' = [pc EXCEPT ![t] =
                IF size = 0 THEN "free_body"
                ELSE IF block = NULL THEN "alloc_body"
                ELSE "resize_find"]
    /\ frame' = [frame EXCEPT ![t] =
                   [NoFrame EXCEPT !.op = "resize", !.block = block, !.size = size]]
    /\ UNCHANGED <<memory, memory_head, memory_size, lock_state, arena, held>>

\* Mutant: the block is released by a mem_free call of its own, which
\* unlocks as it returns.
M10_ResizeHoldsLock(t) == Release(t)

\* mem_resize calls mem_free_no_lock and mem_alloc_no_lock inside its own
\* critical section: the mutex stays with t from the release of the block on.
ResizeHoldsLock(t) == UNCHANGED lock

\* The search for the block, current_size and mem_free_no_lock(block).
ResizeFind(t) ==
    /\ pc[t] = "resize_find"
    /\ LET i == Find(memory_head, frame[t].block, 1) IN
       IF i = 0
       THEN /\ pc' = [pc EXCEPT ![t] = "resize_unlock"]
            /\ frame' = [frame EXCEPT ![t].before = memory_head]
            /\ UNCHANGED memory_head
       ELSE /\ pc' = [pc EXCEPT ![t] = "resize_alloc"]
            /\ frame' = [frame EXCEPT
                           ![t].current_size = memory_head[i].end - memory_head[i].start,
                           ![t].before = memory_head]
            /\ memory_head' = FreeNoLock(memory_head, frame[t].block)
    /\ ResizeHoldsLock(t)
    /\ UNCHANGED <<memory, memory_size, lock_state, arena, held>>

\* new_block = mem_alloc_no_lock(size).
ResizeAlloc(t) ==
    /\ pc[t] = "resize_alloc"
    /\ LET r == AllocNoLock(memory, memory_size, memory_head, frame[t].size) IN
       /\ memory_head' = r.head
       /\ frame' = [frame EXCEPT ![t].ret = r.ret]
       /\ pc' = [pc EXCEPT ![t] =
                   IF r.ret = NULL THEN "resize_rollback" ELSE "resize_copy"]
    /\ UNCHANGED <<memory, memory_size, lock, lock_state, arena, held>>

\* Mutant: the rollback asks for the requested size again.
M9_RollbackSize(f) == f.size

\* The size the rollback allocates.
RollbackSize(f) == f.current_size

\* mem_alloc_no_lock(current_size) after a failed allocation; returns NULL.
ResizeRollback(t) ==
    /\ pc[t] = "resize_rollback"
    /\ memory_head' =
         AllocNoLock(memory, memory_size, memory_head, RollbackSize(frame[t])).head
    /\ pc' = [pc EXCEPT ![t] = "resize_unlock"]
    /\ UNCHANGED <<memory, memory_size, lock, lock_state, arena, frame, held>>

\* new_size, the smaller of size and current_size.
NewSize(f) == IF f.size <= f.current_size THEN f.size ELSE f.current_size

\* if (new_block != block) memcpy(new_block, block, new_size).
ResizeCopy(t) ==
    /\ pc[t] = "resize_copy"
    /\ arena' \in (IF frame[t].ret # frame[t].block
                   THEN Memcpy(arena, frame[t].ret, frame[t].block, NewSize(frame[t]))
                   ELSE {arena})
    /\ held' = (held \ {frame[t].block}) \cup {frame[t].ret}
    /\ pc' = [pc EXCEPT ![t] = "resize_unlock"]
    /\ UNCHANGED <<memory, memory_head, memory_size, lock, lock_state, frame>>

\* ----------------------------------------------------------- mem_deinit
InDeinit(t) == pc[t] \in {"deinit_body", "deinit_unlock", "deinit_destroy"}

\* Called once on an initialised manager.
DeinitLock(t) ==
    /\ pc[t] = "idle"
    /\ lock_state = "init"
    /\ \A u \in Threads : ~InDeinit(u)
    /\ Acquire(t)
    /\ pc' = [pc EXCEPT ![t] = "deinit_body"]
    /\ frame' = [frame EXCEPT ![t] = [NoFrame EXCEPT !.op = "deinit"]]
    /\ UNCHANGED <<memory, memory_head, memory_size, lock_state, arena, held>>

\* free(memory), the records freed, memory_size = 0.  memory keeps its value.
DeinitBody(t) ==
    /\ pc[t] = "deinit_body"
    /\ memory_head' = <<>>
    /\ memory_size' = 0
    /\ arena' = ZeroArena
    /\ held' = {}
    /\ pc' = [pc EXCEPT ![t] = "deinit_unlock"]
    /\ UNCHANGED <<memory, lock, lock_state, frame>>

DeinitUnlock(t) ==
    /\ pc[t] = "deinit_unlock"
    /\ Release(t)
    /\ pc' = [pc EXCEPT ![t] = "deinit_destroy"]
    /\ UNCHANGED <<memory, memory_head, memory_size, lock_state, arena, frame, held>>

\* pthread_mutex_destroy, after the unlock.
DeinitDestroy(t) ==
    /\ pc[t] = "deinit_destroy"
    /\ lock_state' = "destroyed"
    /\ pc' = [pc EXCEPT ![t] = "idle"]
    /\ frame' = [frame EXCEPT ![t] = NoFrame]
    /\ UNCHANGED <<memory, memory_head, memory_size, lock, arena, held>>

\* -------------------------------------------------------------- callers
\* A caller stores a byte in a block it holds (not while a resize is under
\* way: the payload is the callers' to synchronise).
Write(t, a, v) ==
    /\ pc[t] = "idle"
    /\ \A u \in Threads : pc[u] \notin (ResizeMid \cup {"resize_find"})
    /\ \E i \in 1..Len(memory_head) :
          /\ memory_head[i].start \in held
          /\ memory_head[i].start <= a /\ a < memory_head[i].end
    /\ arena[a] # v
    /\ arena' = [arena EXCEPT ![a] = v]
    /\ UNCHANGED <<memory, memory_head, memory_size, lock, lock_state, pc, frame, held>>

\* The manager's operations, apart from mem_init, called by threads that use
\* the manager directly: the list client is left alone.
Ops ==
    \/ \E t \in Threads, size \in Sizes : AllocLock(t, size) /\ UNCHANGED lvars
    \/ \E t \in Threads : AllocBody(t) /\ UNCHANGED lvars
    \/ \E t \in Threads : Unlock(t) /\ UNCHANGED lvars
    \/ \E t \in Threads, block \in Pointers : FreeLock(t, block) /\ UNCHANGED lvars
    \/ \E t \in Threads : FreeBody(t) /\ UNCHANGED lvars
    \/ \E t \in Threads, block \in Pointers, size \in Sizes :
          ResizeLock(t, block, size) /\ UNCHANGED lvars
    \/ \E t \in Threads : ResizeFind(t) /\ UNCHANGED lvars
    \/ \E t \in Threads : ResizeAlloc(t) /\ UNCHANGED lvars
    \/ \E t \in Threads : ResizeRollback(t) /\ UNCHANGED lvars
    \/ \E t \in Threads : ResizeCopy(t) /\ UNCHANGED lvars
    \/ \E t \in Threads : DeinitLock(t) /\ UNCHANGED lvars
    \/ \E t \in Threads : DeinitBody(t) /\ UNCHANGED lvars
    \/ \E t \in Threads : DeinitUnlock(t) /\ UNCHANGED lvars
    \/ \E t \in Threads : DeinitDestroy(t) /\ UNCHANGED lvars

\* The index and the lock.  No branch of the code reads the payload, so the
\* bytes are left out: the buffer holds zeros and no caller writes.
Next ==
    \/ \E size \in Caps : MemInit(size, ZeroArena) /\ UNCHANGED lvars
    \/ Ops

Spec == Init /\ [][Next]_vars

\* The same with the payload: a fresh buffer holds any bytes, callers write.
NextBytes ==
    \/ \E size \in Caps : \E fresh \in FreshArenas(size) :
          MemInit(size, fresh) /\ UNCHANGED lvars
    \/ Ops
    \/ \E t \in Threads, a \in ArenaAddrs, v \in Byte : Write(t, a, v) /\ UNCHANGED lvars

SpecBytes == Init /\ [][NextBytes]_vars

\* ====================================================================
\* The list client (linked_list.c)
\* ====================================================================
\* Values stored in the list, and the arena sizes passed to list_init.
DataVals == {1, 2}
ListSizes == {NodeSize * k : k \in 1..MaxNodes}
\* The addresses at which a node can lie.
NodeAddrs == {Base + NodeSize * k : k \in 0..(MaxNodes - 1)}

\* new_node->data = d; new_node->next = n.
SetNode(nd, a, d, n) ==
    [x \in (DOMAIN nd) \cup {a} |-> IF x = a THEN [data |-> d, next |-> n] ELSE nd[x]]

SetNext(nd, a, n) == [nd EXCEPT ![a].next = n]

\* The nodes reachable from h, in list order.
RECURSIVE ListAddrs(_, _)
ListAddrs(h, nd) ==
    IF h = NULL THEN <<>> ELSE <<h>> \o ListAddrs(nd[h].next, nd)

ListData(h, nd) ==
    LET a == ListAddrs(h, nd) IN [i \in 1..Len(a) |-> nd[a[i]].data]

\* while (current->next != NULL) current = current->next;
RECURSIVE LastNode(_, _)
LastNode(current, nd) ==
    IF nd[current].next = NULL THEN current ELSE LastNode(nd[current].next, nd)

\* The body of list_insert: new_node is linked behind the last node.
LinkAtEnd(h, nd, new_node, data) ==
    LET linked == IF h = NULL THEN nd ELSE SetNext(nd, LastNode(h, nd), new_node)
    IN [head |-> (IF h = NULL THEN new_node ELSE h),
        nodes |-> SetNode(linked, new_node, data, NULL)]

\* The body of list_insert_after once mem_alloc has returned new_node.
LinkAfter(nd, prev_node, new_node, data) ==
    SetNext(SetNode(nd, new_node, data, nd[prev_node].next), prev_node, new_node)

\* while (current && current->next != next_node) current = current->next;
RECURSIVE PredOf(_, _, _)
PredOf(current, nd, next_node) ==
    IF current = NULL \/ nd[current].next = next_node THEN current
    ELSE PredOf(nd[current].next, nd, next_node)

\* The body of list_insert_before once mem_alloc has returned new_node.
LinkBefore(h, nd, next_node, new_node, data) ==
    LET fresh == SetNode(nd, new_node, data, next_node) IN
    IF next_node = h THEN [head |-> new_node, nodes |-> fresh]
    ELSE LET current == PredOf(h, nd, next_node) IN
         [head |-> h,
          nodes |-> IF current # NULL THEN SetNext(fresh, current, new_node) ELSE fresh]

\* The walk of list_delete from a node whose own data did not match: the
\* node before the first later match, or NULL.
RECURSIVE FindAfter(_, _, _)
FindAfter(current, nd, data) ==
    IF nd[current].next = NULL THEN NULL
    ELSE IF nd[nd[current].next].data = data THEN current
    ELSE FindAfter(nd[current].next, nd, data)

\* Mutant: the first node is not compared, only the nodes behind it.
M15_Unlink(h, nd, data) ==
    LET current == FindAfter(h, nd, data) IN
    IF current = NULL THEN [head |-> h, nodes |-> nd, temp |-> NULL]
    ELSE LET temp == nd[current].next IN
         [head |-> h, nodes |-> SetNext(nd, current, nd[temp].next), temp |-> temp]

\* The body of list_delete on a non-empty list: the node is unlinked and
\* temp is the node to free (NULL when no node holds data).
Unlink(h, nd, data) ==
    IF nd[h].data = data
    THEN [head |-> nd[h].next, nodes |-> nd, temp |-> h]
    ELSE LET current == FindAfter(h, nd, data) IN
         IF current = NULL THEN [head |-> h, nodes |-> nd, temp |-> NULL]
         ELSE LET temp == nd[current].next IN
              [head |-> h, nodes |-> SetNext(nd, current, nd[temp].next), temp |-> temp]

\* list_count_nodes.
RECURSIVE CountNodes(_, _)
CountNodes(current, nd) ==
    IF current = NULL THEN 0 ELSE 1 + CountNodes(nd[current].next, nd)

\* ------------------------------------------------------- the list lock
\* pthread_rwlock_wrlock / rdlock / unlock on the initialised lock.
WrAcquire(t) ==
    /\ list_lock.state = "init"
    /\ list_lock.w = None /\ list_lock.r = {}
    /\ list_lock' = [list_lock EXCEPT !.w = t]

RdAcquire(t) ==
    /\ list_lock.state = "init"
    /\ list_lock.w = None
    /\ list_lock' = [list_lock EXCEPT !.r = @ \cup {t}]

RwRelease(t) ==
    list_lock' = [list_lock EXCEPT !.w = (IF @ = t THEN None ELSE @), !.r = @ \ {t}]

ListIdle == \A t \in Threads : lpc[t] = "idle"

\* A list operation is started on an initialised list by a thread that is
\* in no operation, in a process that runs.
CanStart(t) == ~crashed /\ lpc[t] = "idle" /\ list_lock.state = "init"

\* The list as the thread found it when it took the lock (ghost).
Snapshot(t, l) ==
    [l EXCEPT !.before = ListAddrs(list_head, nodes), !.bdata = ListData(list_head, nodes)]

\* ------------------------------------------------------------ list_init
\* Called while no thread is inside the list or the manager.
ListInit(size) ==
    /\ ~crashed /\ ListIdle
    /\ list_lock.state # "init"
    /\ MemInit(size, ZeroArena)
    /\ list_head' = NULL
    /\ nodes' = <<>>
    /\ list_lock' = [state |-> "init", w |-> None, r |-> {}]
    /\ UNCHANGED <<lpc, loc, crashed>>

\* The steps of a mem_alloc / mem_free call that a list operation is in.
ListAllocBody(t) ==
    /\ ~crashed /\ lpc[t] # "idle"
    /\ AllocBody(t)
    /\ UNCHANGED lvars

ListFreeBody(t) ==
    /\ ~crashed /\ lpc[t] # "idle"
    /\ FreeBody(t)
    /\ UNCHANGED lvars

\* pthread_rwlock_unlock and return.
ListUnlock(t) ==
    /\ ~crashed
    /\ lpc[t] \in {"insert_unlock", "after_unlock", "before_unlock", "delete_unlock"}
    /\ RwRelease(t)
    /\ lpc' = [lpc EXCEPT ![t] = "idle"]
    /\ loc' = [loc EXCEPT ![t] = NoLoc]
    /\ UNCHANGED <<list_head, nodes, crashed, mvars>>

\* ---------------------------------------------------------- list_insert
\* mem_alloc(sizeof(Node)) is called before the list lock is taken.
InsertCall(t, data) ==
    /\ CanStart(t)
    /\ AllocLock(t, NodeSize)
    /\ lpc' = [lpc EXCEPT ![t] = "insert_alloc"]
    /\ loc' = [loc EXCEPT ![t] = [NoLoc EXCEPT !.data = data]]
    /\ UNCHANGED <<list_head, nodes, list_lock, crashed>>

InsertAllocRet(t) ==
    /\ ~crashed
    /\ lpc[t] = "insert_alloc" /\ pc[t] = "alloc_unlock"
    /\ Unlock(t)
    /\ IF frame[t].ret = NULL
       THEN /\ lpc' = [lpc EXCEPT ![t] = "idle"]
            /\ loc' = [loc EXCEPT ![t] = NoLoc]
       ELSE /\ lpc' = [lpc EXCEPT ![t] = "insert_lock"]
            /\ loc' = [loc EXCEPT ![t].new_node = frame[t].ret]
    /\ UNCHANGED <<list_head, nodes, list_lock, crashed>>

InsertLock(t) ==
    /\ ~crashed
    /\ lpc[t] = "insert_lock"
    /\ WrAcquire(t)
    /\ lpc' = [lpc EXCEPT ![t] = "insert_body"]
    /\ loc' = [loc EXCEPT ![t] = Snapshot(t, @)]
    /\ UNCHANGED <<list_head, nodes, crashed, mvars>>

InsertBody(t) ==
    /\ ~crashed
    /\ lpc[t] = "insert_body"
    /\ LET r == LinkAtEnd(list_head, nodes, loc[t].new_node, loc[t].data) IN
       /\ list_head' = r.head
       /\ nodes' = r.nodes
    /\ lpc' = [lpc EXCEPT ![t] = "insert_unlock"]
    /\ UNCHANGED <<list_lock, loc, crashed, mvars>>

\* ---------------------------------------------------- list_insert_after
\* The caller passes a node of the list; a null prev_node returns at once.
AfterLock(t, prev_node, data) ==
    /\ CanStart(t)
    /\ \E i \in 1..Len(ListAddrs(list_head, nodes)) :
          ListAddrs(list_head, nodes)[i] = prev_node
    /\ WrAcquire(t)
    /\ lpc' = [lpc EXCEPT ![t] = "after_call"]
    /\ loc' = [loc EXCEPT ![t] = Snapshot(t, [NoLoc EXCEPT !.data = data, !.ref = prev_node])]
    /\ UNCHANGED <<list_head, nodes, crashed, mvars>>

AfterAllocCall(t) ==
    /\ ~crashed
    /\ lpc[t] = "after_call"
    /\ AllocLock(t, NodeSize)
    /\ lpc' = [lpc EXCEPT ![t] = "after_alloc"]
    /\ UNCHANGED <<list_head, nodes, list_lock, loc, crashed>>

AfterAllocRet(t) ==
    /\ ~crashed
    /\ lpc[t] = "after_alloc" /\ pc[t] = "alloc_unlock"
    /\ Unlock(t)
    /\ nodes' = (IF frame[t].ret = NULL THEN nodes
                 ELSE LinkAfter(nodes, loc[t].ref, frame[t].ret, loc[t].data))
    /\ loc' = [loc EXCEPT ![t].new_node = frame[t].ret]
    /\ lpc' = [lpc EXCEPT ![t] = "after_unlock"]
    /\ UNCHANGED <<list_head, list_lock, crashed>>

\* --------------------------------------------------- list_insert_before
\* if (*head == NULL || !next_node) return;  read without the list lock.
BeforeCheck(t, next_node, data) ==
    /\ CanStart(t)
    /\ list_head # NULL /\ next_node # NULL
    /\ lpc' = [lpc EXCEPT ![t] = "before_lock"]
    /\ loc' = [loc EXCEPT ![t] = [NoLoc EXCEPT !.data = data, !.ref = next_node]]
    /\ UNCHANGED <<list_head, nodes, list_lock, crashed, mvars>>

BeforeLock(t) ==
    /\ ~crashed
    /\ lpc[t] = "before_lock"
    /\ WrAcquire(t)
    /\ lpc' = [lpc EXCEPT ![t] = "before_call"]
    /\ loc' = [loc EXCEPT ![t] = Snapshot(t, @)]
    /\ UNCHANGED <<list_head, nodes, crashed, mvars>>

BeforeAllocCall(t) ==
    /\ ~crashed
    /\ lpc[t] = "before_call"
    /\ AllocLock(t, NodeSize)
    /\ lpc' = [lpc EXCEPT ![t] = "before_alloc"]
    /\ UNCHANGED <<list_head, nodes, list_lock, loc, crashed>>

\* The rest of the body once mem_alloc has returned.  A new node whose
\* next_node is not found is linked nowhere and not freed.
BeforeAllocRet(t) ==
    /\ ~crashed
    /\ lpc[t] = "before_alloc" /\ pc[t] = "alloc_unlock"
    /\ Unlock(t)
    /\ LET r == IF frame[t].ret = NULL THEN [head |-> list_head, nodes |-> nodes]
                ELSE LinkBefore(list_head, nodes, loc[t].ref, frame[t].ret, loc[t].data)
       IN /\ list_head' = r.head
          /\ nodes' = r.nodes
    /\ loc' = [loc EXCEPT ![t].new_node = frame[t].ret]
    /\ lpc' = [lpc EXCEPT ![t] = "before_unlock"]
    /\ UNCHANGED <<list_lock, crashed>>

\* ---------------------------------------------------------- list_delete
\* if (*head == NULL) return;  read without the list lock.
DeleteCheck(t, data) ==
    /\ CanStart(t)
    /\ list_head # NULL
    /\ lpc' = [lpc EXCEPT ![t] = "delete_lock"]
    /\ loc' = [loc EXCEPT ![t] = [NoLoc EXCEPT !.data = data]]
    /\ UNCHANGED <<list_head, nodes, list_lock, crashed, mvars>>

DeleteLock(t) ==
    /\ ~crashed
    /\ lpc[t] = "delete_lock"
    /\ WrAcquire(t)
    /\ lpc' = [lpc EXCEPT ![t] = "delete_body"]
    /\ loc' = [loc EXCEPT ![t] = Snapshot(t, @)]
    /\ UNCHANGED <<list_head, nodes, crashed, mvars>>

\* (*head)->data is read whatever *head is now.  Through a null head the
\* read is undefined: the process faults, or the read yields no match and
\* the call returns.
DeleteBody(t) ==
    /\ ~crashed
    /\ lpc[t] = "delete_body"
    /\ IF list_head = NULL
       THEN /\ \/ crashed' = TRUE /\ UNCHANGED lpc
               \/ crashed' = FALSE /\ lpc' = [lpc EXCEPT ![t] = "delete_unlock"]
            /\ UNCHANGED <<list_head, nodes, loc>>
       ELSE LET r == Unlink(list_head, nodes, loc[t].data) IN
            /\ list_head' = r.head
            /\ nodes' = r.nodes
            /\ loc' = [loc EXCEPT ![t].temp = r.temp]
            /\ lpc' = [lpc EXCEPT ![t] =
                         IF r.temp = NULL THEN "delete_unlock" ELSE "delete_call"]
            /\ UNCHANGED crashed
    /\ UNCHANGED <<list_lock, mvars>>

\* mem_free(temp).
DeleteFreeCall(t) ==
    /\ ~crashed
    /\ lpc[t] = "delete_call"
    /\ FreeLock(t, loc[t].temp)
    /\ lpc' = [lpc EXCEPT ![t] = "delete_free"]
    /\ UNCHANGED <<list_head, nodes, list_lock, loc, crashed>>

\* The fields of the freed node are no longer the list's to read.
DeleteFreeRet(t) ==
    /\ ~crashed
    /\ lpc[t] = "delete_free" /\ pc[t] = "free_unlock"
    /\ Unlock(t)
    /\ nodes' = [a \in (DOMAIN nodes) \ {loc[t].temp} |-> nodes[a]]
    /\ lpc' = [lpc EXCEPT ![t] = "delete_unlock"]
    /\ UNCHANGED <<list_head, list_lock, loc, crashed>>

\* ------------------------------------------ list_search, list_count_nodes
SearchLock(t, data) ==
    /\ CanStart(t)
    /\ RdAcquire(t)
    /\ lpc' = [lpc EXCEPT ![t] = "search_body"]
    /\ loc' = [loc EXCEPT ![t] = Snapshot(t, [NoLoc EXCEPT !.data = data])]
    /\ UNCHANGED <<list_head, nodes, crashed, mvars>>

\* The walk, the unlock and the return; the node found goes to the caller
\* and leaves no trace in the list or the manager.
SearchBody(t) ==
    /\ ~crashed
    /\ lpc[t] = "search_body"
    /\ RwRelease(t)
    /\ lpc' = [lpc EXCEPT ![t] = "idle"]
    /\ loc' = [loc EXCEPT ![t] = NoLoc]
    /\ UNCHANGED <<list_head, nodes, crashed, mvars>>

CountLock(t) ==
    /\ CanStart(t)
    /\ RdAcquire(t)
    /\ lpc' = [lpc EXCEPT ![t] = "count_body"]
    /\ loc' = [loc EXCEPT ![t] = Snapshot(t, NoLoc)]
    /\ UNCHANGED <<list_head, nodes, crashed, mvars>>

\* The walk, the unlock and the return of the count.
CountBody(t) ==
    /\ ~crashed
    /\ lpc[t] = "count_body"
    /\ RwRelease(t)
    /\ lpc' = [lpc EXCEPT ![t] = "idle"]
    /\ loc' = [loc EXCEPT ![t] = NoLoc]
    /\ UNCHANGED <<list_head, nodes, crashed, mvars>>

\* --------------------------------------------------------- list_cleanup
\* Called after the other threads' list operations have returned: every
\* node is freed, mem_deinit tears the manager down, the list lock is
\* destroyed.  memory keeps its value.
ListCleanup(t) ==
    /\ CanStart(t) /\ ListIdle /\ AllIdle
    /\ list_head' = NULL
    /\ nodes' = <<>>
    /\ list_lock' = [state |-> "destroyed", w |-> None, r |-> {}]
    /\ memory_head' = <<>>
    /\ memory_size' = 0
    /\ lock_state' = "destroyed"
    /\ arena' = ZeroArena
    /\ held' = {}
    /\ UNCHANGED <<memory, lock, pc, frame, lpc, loc, crashed>>

\* Threads that use the manager through the list only.
NextList ==
    \/ \E size \in ListSizes : ListInit(size)
    \/ \E t \in Threads : ListAllocBody(t)
    \/ \E t \in Threads : ListFreeBody(t)
    \/ \E t \in Threads : ListUnlock(t)
    \/ \E t \in Threads, data \in DataVals : InsertCall(t, data)
    \/ \E t \in Threads : InsertAllocRet(t)
    \/ \E t \in Threads : InsertLock(t)
    \/ \E t \in Threads : InsertBody(t)
    \/ \E t \in Threads, prev_node \in NodeAddrs, data \in DataVals :
          AfterLock(t, prev_node, data)
    \/ \E t \in Threads : AfterAllocCall(t)
    \/ \E t \in Threads : AfterAllocRet(t)
    \/ \E t \in Threads, next_node \in NodeAddrs, data \in DataVals :
          BeforeCheck(t, next_node, data)
    \/ \E t \in Threads : BeforeLock(t)
    \/ \E t \in Threads : BeforeAllocCall(t)
    \/ \E t \in Threads : BeforeAllocRet(t)
    \/ \E t \in Threads, data \in DataVals : DeleteCheck(t, data)
    \/ \E t \in Threads : DeleteLock(t)
    \/ \E t \in Threads : DeleteBody(t)
    \/ \E t \in Threads : DeleteFreeCall(t)
    \/ \E t \in Threads : DeleteFreeRet(t)
    \/ \E t \in Threads, data \in DataVals : SearchLock(t, data)
    \/ \E t \in Threads : SearchBody(t)
    \/ \E t \in Threads : CountLock(t)
    \/ \E t \in Threads : CountBody(t)
    \/ \E t \in Threads : ListCleanup(t)

SpecList == Init /\ [][NextList]_vars

\* ====================================================================
\* Properties
\* ====================================================================
\* The gaps of an index: before the first record, between consecutive
\* records, after the last record up to the arena end (the whole arena when
\* there is no record).
Gaps(mem, msize, head) ==
    IF head = <<>> THEN {[start |-> mem, len |-> msize]}
    ELSE {[start |-> mem, len |-> head[1].start - mem]}
         \cup {[start |-> head[i].end, len |-> head[i + 1].start - head[i].end] :
                 i \in 1..(Len(head) - 1)}
         \cup {[start |-> head[Len(head)].end,
                len |-> mem + msize - head[Len(head)].end]}

FittingGaps(mem, msize, head, size) ==
    {g \in Gaps(mem, msize, head) : g.len >= size}

\* head is `before` with the one record b added, the rest in place.
AddsOnly(head, before, b) ==
    \E i \in 0..Len(before) : head = InsertAt(before, i, b)

Inside(p, head) ==
    \E i \in 1..Len(head) : head[i].start <= p /\ p < head[i].end

\* A thread about to return from mem_alloc (called directly or by mem_resize
\* for a null block).
AllocDone(t) == pc[t] = "alloc_unlock"

\* C1: the chain is sorted by ascending start address and consecutive
\* records do not overlap (A.end <= B.start), in every state.
C1_SortedNoOverlap ==
    \A i \in 1..(Len(memory_head) - 1) :
        /\ memory_head[i].start < memory_head[i + 1].start
        /\ memory_head[i].end <= memory_head[i + 1].start

\* A resize has just placed its block between two other records.
C1_Witness ==
    \E t \in Threads :
        /\ pc[t] = "resize_unlock"
        /\ frame[t].ret # NULL
        /\ Len(memory_head) = 3
        /\ memory_head[2].start = frame[t].ret

C3_Original ==
    \A t \in Threads :
        (AllocDone(t) /\ frame[t].ret # NULL)
          => ~Inside(frame[t].ret, frame[t].before)

\* C3 amended: the same for a requested size > 0 (a zero-size request
\* returns the arena base whatever lives there); so no two live records
\* share a start address.
C3_FreshAddress ==
    /\ \A t \in Threads :
          (AllocDone(t) /\ frame[t].ret # NULL /\ frame[t].size > 0)
            => ~Inside(frame[t].ret, frame[t].before)
    /\ Cardinality(Starts(memory_head)) = Len(memory_head)

\* A successful mem_alloc of size > 0 on an index that has records.
C3_Witness ==
    \E t \in Threads :
        /\ AllocDone(t)
        /\ frame[t].op = "alloc"
        /\ frame[t].size > 0
        /\ frame[t].ret # NULL
        /\ Len(frame[t].before) = 2

\* C4: outside a resize's critical section, the starts of the records are
\* exactly the addresses the callers hold.
C4_MirrorsHeld ==
    (\A t \in Threads : pc[t] \notin ResizeMid)
      => Starts(memory_head) = held

\* C5: mem_alloc(size), size > 0, on an initialised arena with no gap of
\* length >= size returns NULL and leaves the index as it was.
C5_NoGapFails ==
    \A t \in Threads :
        (/\ AllocDone(t)
         /\ frame[t].size > 0
         /\ memory # NULL
         /\ FittingGaps(memory, memory_size, frame[t].before, frame[t].size) = {})
          => (frame[t].ret = NULL /\ memory_head = frame[t].before)

\* A request within the capacity, and within the total free space, fails
\* for want of a single gap: the free space is fragmented.
C5_Witness ==
    \E t \in Threads :
        /\ AllocDone(t)
        /\ frame[t].ret = NULL
        /\ frame[t].size > 0
        /\ memory # NULL
        /\ frame[t].size <= memory_size - SumSizes(frame[t].before)
        /\ memory_head = frame[t].before

\* Scenario A, on the functions of the allocator: init(100); alloc(30) at
\* offset 0; alloc(40) at offset 30; free(offset 0); alloc(50) fails;
\* alloc(30) returns offset 0.
ScenarioA ==
    LET r1 == AllocNoLock(Base, 100, <<>>, 30)
        r2 == AllocNoLock(Base, 100, r1.head, 40)
        h3 == FreeNoLock(r2.head, r1.ret)
        r4 == AllocNoLock(Base, 100, h3, 50)
        r5 == AllocNoLock(Base, 100, r4.head, 30)
    IN /\ r1.ret = Base
       /\ r2.ret = Base + 30
       /\ h3 = <<Block(Base + 30, Base + 70)>>
       /\ r4.ret = NULL /\ r4.head = h3
       /\ r5.ret = Base
       /\ r5.head = <<Block(Base, Base + 30), Block(Base + 30, Base + 70)>>

IndexUnchanged(t) == memory_head = frame[t].before

Untracked(t) == frame[t].block \notin Starts(frame[t].before)

\* t is about to return from mem_free(p) or mem_resize(p, n).
FreeOrResizeDone(t) ==
    \/ pc[t] = "free_unlock"
    \/ pc[t] = "resize_unlock"
    \/ pc[t] = "alloc_unlock" /\ frame[t].op = "resize"

\* C7 as claimed: mem_free(p) and mem_resize(p, n), any n, with p null or
\* not the start of a live record leave the index unchanged; mem_resize(p, n)
\* with non-null untracked p and n > 0 returns NULL.
C7_Original ==
    \A t \in Threads :
        (FreeOrResizeDone(t) /\ (frame[t].block = NULL \/ Untracked(t)))
          => /\ IndexUnchanged(t)
             /\ (frame[t].op = "resize" /\ frame[t].block # NULL /\ frame[t].size > 0)
                  => frame[t].ret = NULL

\* C7 amended: as claimed, except that mem_resize(NULL, n) with n > 0 is
\* mem_alloc(n) and may add a record.
C7_UntrackedNoOp ==
    \A t \in Threads :
        (/\ FreeOrResizeDone(t)
         /\ (frame[t].block = NULL \/ Untracked(t))
         /\ ~(frame[t].op = "resize" /\ frame[t].block = NULL /\ frame[t].size > 0))
          => /\ IndexUnchanged(t)
             /\ (frame[t].op = "resize" /\ frame[t].block # NULL /\ frame[t].size > 0)
                  => frame[t].ret = NULL

\* mem_resize(p, n), n > 0, with p inside a live block but not its start.
C7_Witness ==
    \E t \in Threads :
        /\ pc[t] = "resize_unlock"
        /\ frame[t].size > 0
        /\ Untracked(t)
        /\ Inside(frame[t].block, frame[t].before)
        /\ frame[t].ret = NULL

\* C8: when mem_resize succeeds on a tracked block, the first
\* min(S, newSize) bytes at the returned address are the bytes that were at
\* block, wherever the new block is placed.
C8_ContentPreserved ==
    [][\A t \in Threads :
          (pc[t] = "resize_copy" /\ pc'[t] = "resize_unlock")
            => \A i \in 0..(NewSize(frame[t]) - 1) :
                  arena'[frame[t].ret + i] = arena[frame[t].block + i]]_vars

\* t is about to return from a mem_resize that rolled back.
RolledBack(t) ==
    pc[t] = "resize_unlock" /\ frame[t].ret = NULL /\ frame[t].current_size > 0

\* The index before the call without the record of `block`.
WithoutBlock(before, block) ==
    RemoveAt(before, CHOOSE i \in 1..Len(before) : before[i].start = block)

C10_ResizeAtomic ==
    \A t \in Threads :
        pc[t] \in ResizeMid =>
          /\ lock = t
          /\ \A u \in Threads \ {t} : pc[u] \notin BodyPcs

\* A resize has released its block, whose range is a gap of the index,
\* while the other thread is outside the allocator.
C10_Witness ==
    \E t \in Threads :
        /\ pc[t] = "resize_alloc"
        /\ frame[t].block \notin Starts(memory_head)
        /\ memory_head # <<>>
        /\ \E u \in Threads \ {t} : pc[u] = "idle"

\* C11: on an initialised manager at most one thread is inside the body of
\* an allocator operation, and whenever the lock is not held the live sizes
\* sum to at most the capacity.
C11_MutexAndCapacity ==
    lock_state = "init" =>
      /\ Cardinality({t \in Threads : pc[t] \in BodyPcs}) <= 1
      /\ \A t \in Threads : pc[t] \in BodyPcs => lock = t
      /\ lock = None => SumSizes(memory_head) <= memory_size

\* One thread is inside mem_free on a full arena of several blocks, the
\* other is outside.
C11_Witness ==
    \E t \in Threads :
        /\ pc[t] = "free_body"
        /\ lock = t
        /\ Len(memory_head) >= 2
        /\ SumSizes(memory_head) = memory_size
        /\ \E u \in Threads \ {t} : pc[u] = "idle"

\* Scenario B: init(10); alloc(0) returns the base and there is no record.
ScenarioB ==
    LET r == AllocNoLock(Base, 10, <<>>, 0)
    IN r.ret = Base /\ Len(r.head) = 0

\* C12: mem_alloc(0) on an initialised arena returns the arena base and
\* leaves the index as it was, whatever is live.  Scenario B is an instance.
C12_ZeroSize ==
    /\ \A t \in Threads :
          (AllocDone(t) /\ frame[t].size = 0 /\ memory # NULL)
            => (frame[t].ret = memory /\ memory_head = frame[t].before)
    /\ ScenarioB

\* mem_alloc(0) returns the base while blocks are live.
C12_Witness ==
    \E t \in Threads :
        /\ AllocDone(t)
        /\ frame[t].op = "alloc"
        /\ frame[t].size = 0
        /\ frame[t].ret = Base
        /\ frame[t].before # <<>>

\* C13: after mem_deinit and until the next mem_init the index is empty,
\* the capacity is 0 and every mem_alloc, of any size, returns NULL and
\* creates no record.
C13_InertAfterDeinit ==
    lock_state = "destroyed" =>
      /\ memory_head = <<>>
      /\ memory_size = 0
      /\ \A t \in Threads : AllocDone(t) => frame[t].ret = NULL

\* C16: mem_free(p) with p the start of a live record removes that record
\* alone, the others keeping their bounds and order, and the range [p, end)
\* lies in one gap, which a later allocation of that size can take.
C16_FreeRemovesOne ==
    \A t \in Threads :
        (pc[t] = "free_unlock" /\ ~Untracked(t)) =>
          LET f == frame[t]
              i == CHOOSE j \in 1..Len(f.before) : f.before[j].start = f.block
              e == f.before[i].end
          IN /\ memory_head = SelectSeq(f.before, LAMBDA r : r.start # f.block)
             /\ Len(memory_head) = Len(f.before) - 1
             /\ \E g \in Gaps(memory, memory_size, memory_head) :
                   g.start <= f.block /\ e <= g.start + g.len
             /\ AllocNoLock(memory, memory_size, memory_head, e - f.block).ret # NULL

\* The middle record of three has been freed.
C16_Witness ==
    \E t \in Threads :
        /\ pc[t] = "free_unlock"
        /\ Len(frame[t].before) = 3
        /\ frame[t].before[2].start = frame[t].block
        /\ Len(memory_head) = 2

\* C19: the mutex is destroyed only while no thread holds it and no other
\* thread is inside an allocator operation.
C19_DestroyExclusive ==
    [][(lock_state = "init" /\ lock_state' = "destroyed")
         => (lock = None /\ \A t \in Threads : pc[t] \notin BodyPcs)]_vars

ListState(size) ==
    [mem |-> Base, msize |-> size, mh |-> <<>>, head |-> NULL, nodes |-> <<>>]

SeqInsert(st, data) ==
    LET a == AllocNoLock(st.mem, st.msize, st.mh, NodeSize) IN
    IF a.ret = NULL THEN st
    ELSE LET r == LinkAtEnd(st.head, st.nodes, a.ret, data) IN
         [st EXCEPT !.mh = a.head, !.head = r.head, !.nodes = r.nodes]

SeqDelete(st, data) ==
    IF st.head = NULL THEN st
    ELSE LET r == Unlink(st.head, st.nodes, data) IN
         [st EXCEPT !.head = r.head, !.nodes = r.nodes,
                    !.mh = IF r.temp = NULL THEN @ ELSE FreeNoLock(@, r.temp)]

\* Scenario C: insert(1), insert(2), insert(3), delete(2) on an empty list.
ScenarioC ==
    LET s3 == SeqInsert(SeqInsert(SeqInsert(ListState(3 * NodeSize), 1), 2), 3)
        s4 == SeqDelete(s3, 2)
    IN /\ ListData(s3.head, s3.nodes) = <<1, 2, 3>>
       /\ ListData(s4.head, s4.nodes) = <<1, 3>>
       /\ CountNodes(s4.head, s4.nodes) = 2
       /\ Len(s4.mh) = 2

\* The index of the first element of a sequence equal to v, or 0.
FirstMatch(seq, v) ==
    IF \E i \in 1..Len(seq) : seq[i] = v
    THEN CHOOSE i \in 1..Len(seq) : seq[i] = v /\ \A j \in 1..(i - 1) : seq[j] # v
    ELSE 0

Drop(seq, i) == [j \in 1..(Len(seq) - 1) |-> IF j < i THEN seq[j] ELSE seq[j + 1]]

\* C14: list_insert_before with a non-null next_node that is no node of the
\* non-empty list leaves the list as it was and leaves no new record in the
\* manager.
C14_NotInListNoOp ==
    \A t \in Threads :
        (/\ lpc[t] = "before_unlock"
         /\ loc[t].before # <<>>
         /\ \A i \in 1..Len(loc[t].before) : loc[t].before[i] # loc[t].ref)
          => /\ ListAddrs(list_head, nodes) = loc[t].before
             /\ ListData(list_head, nodes) = loc[t].bdata
             /\ loc[t].new_node \notin Starts(memory_head)

\* C15: list_delete(v) removes the first node holding v and no other, keeps
\* the other nodes and their order, and frees that node's block and no
\* other; with no node holding v the list is as it was and no block is
\* freed.  Scenario C is an instance.
C15_DeleteFirstMatch ==
    /\ \A t \in Threads :
          lpc[t] \in {"delete_call", "delete_free", "delete_unlock"} =>
            LET l == loc[t]
                i == FirstMatch(l.bdata, l.data)
            IN IF i = 0
               THEN /\ ListAddrs(list_head, nodes) = l.before
                    /\ ListData(list_head, nodes) = l.bdata
                    /\ l.temp = NULL
                    /\ lpc[t] = "delete_unlock"
               ELSE /\ ListAddrs(list_head, nodes) = Drop(l.before, i)
                    /\ ListData(list_head, nodes) = Drop(l.bdata, i)
                    /\ l.temp = l.before[i]
                    /\ (lpc[t] = "delete_free" /\ pc[t] = "free_unlock") =>
                         /\ frame[t].block = l.temp
                         /\ l.temp \in Starts(frame[t].before)
                         /\ memory_head =
                              SelectSeq(frame[t].before, LAMBDA r : r.start # l.temp)
    /\ ScenarioC

\* Of two nodes holding v the first has been removed and its block freed.
C15_Witness ==
    \E t \in Threads :
        /\ lpc[t] = "delete_free" /\ pc[t] = "free_unlock"
        /\ Len(loc[t].before) = 2
        /\ loc[t].bdata = <<loc[t].data, loc[t].data>>
        /\ ListAddrs(list_head, nodes) = <<loc[t].before[2]>>

\* C17: no thread asks for the list lock while it holds the manager lock,
\* and no state is reachable in which an operation has started and no
\* thread can take a step.
C17_LockOrderNoStuck ==
    /\ \A t \in Threads :
          lock = t => lpc[t] \notin {"idle", "insert_lock", "before_lock", "delete_lock"}
    /\ (\E t \in Threads : lpc[t] # "idle") => ENABLED NextList

\* C18: list_delete reads (*head)->data only when the head, as it is under
\* the write lock, is not null.
C18_HeadReadUnderLock ==
    \A t \in Threads : lpc[t] = "delete_body" => list_head # NULL

====
